---- MODULE Spec2Model ----
(***************************************************************************)
(* Ring camera person detector: the FastAPI application of inference.py    *)
(* (lifecycle state, readiness gate, /detect pipeline), the PersonDetector *)
(* of model.py (lazy model load, decode, inference, result aggregation,    *)
(* failure policy) and the ConfigurationManager of config.py.              *)
(*                                                                         *)
(* One asyncio event loop runs the lifespan coroutine and every request    *)
(* handler.  A handler gives the loop up only at an await; detect_person   *)
(* awaits once (file.read()) and then calls PersonDetector.detect_persons  *)
(* synchronously, so from that call to the response it holds the loop      *)
(* (variable running).                                                     *)
(***************************************************************************)
EXTENDS Integers, Sequences, FiniteSets, TLC

\* ------------------------------------------------------------------ bounds
NumSlots == 2        \* requests in flight at once
MaxGroups == 2       \* result groups in one raw detector output
MaxBoxes == 2        \* boxes in one result group
MaxPredGroups == 1   \* result groups a predict call of the service run returns
MaxPredBoxes == 1    \* boxes in one of them

Reqs == 1..NumSlots

\* ---------------------------------------------------------- program values
\* AppState, and None for the module global before lifespan has run
AppState == {"initializing", "ready", "shutting_down"}
StateValues == AppState \cup {"unset"}

PersonClass == 0
\* another COCO class id (16, dog), as a class outside the default target set
ClassIds == {PersonClass, 16}
\* one detection of result.boxes: class id, confidence in hundredths, bounding
\* box (an id standing for [x1, y1, x2, y2])
Det(c, p, b) == [cls |-> c, conf |-> p, bbox |-> b]
Detections == {Det(PersonClass, 87, 1), Det(PersonClass, 90, 2), Det(16, 90, 3)}
\* the detections a predict call of the service run returns
PredDetections == {Det(PersonClass, 87, 1), Det(16, 90, 3)}

\* exception classes the handlers tell apart
ExcClasses == {"ValueError", "RuntimeError", "OSError", "Other"}

\* the configuration file as ConfigurationManager finds it
CfgFiles == {"missing", "empty", "unparsable", "ok"}

\* classes_to_detect lists a configuration document can give ("absent": the key
\* is not in the document)
ClassesInDoc == {"absent", "dog", "person_dog"}

\* uploads: zero-length, bytes that are no image, bytes of an image
Payloads == {"empty", "garbage", "image"}
Filenames == {"", "cam.jpg"}

SeqsUpTo(S, n) == UNION {[1..k -> S] : k \in 0..n}

\* one result of model.predict: result.boxes is None, or a tuple of detections
Group(isNone, boxes) == [none |-> isNone, boxes |-> boxes]
Groups(D, nb) == {Group(TRUE, <<>>)} \cup {Group(FALSE, b) : b \in SeqsUpTo(D, nb)}
RawOutputs(D, ng, nb) == SeqsUpTo(Groups(D, nb), ng)

Range(s) == {s[i] : i \in 1..Len(s)}
\* the running maximum replaced by the confidence seen last
MaxLast(a, b) == b
Max(a, b) == IF a >= b THEN a ELSE b

\* ------------------------------------------------------------- config.py
\* _load_config without its test of an empty document
_load_config_no_empty_test(file) ==
    CASE file = "missing" -> "FileNotFoundError"
      [] file = "unparsable" -> "YAMLError"
      [] OTHER -> "ok"

\* ConfigurationManager._load_config: "ok" when the document is returned, else
\* the exception class it raises
_load_config(file) ==
    CASE file = "missing" -> "FileNotFoundError"
      [] file = "unparsable" -> "YAMLError"
      [] file = "empty" -> "ValueError"
      [] OTHER -> "ok"

\* ConfigurationManager.get_classes_to_detect
get_classes_to_detect(doc) ==
    CASE doc.classes = "absent" -> <<PersonClass>>
      [] doc.classes = "dog" -> <<16>>
      [] OTHER -> <<PersonClass, 16>>

\* one key of a section: written in the document with a value, or not written
Field(isSet, val) == [set |-> isSet, val |-> val]
Fields(dummy, vals) == {Field(FALSE, dummy)} \cup {Field(TRUE, v) : v \in vals}

\* dict.get(key, default)
get(field, default) == IF field.set THEN field.val ELSE default

\* the section `server`: not in the document, in it without a value (YAML gives
\* None), or a mapping with any subset of its keys
ServerSection(kind, host, port, reload) ==
    [kind |-> kind, host |-> host, port |-> port, reload |-> reload]
NoServer(kind) ==
    ServerSection(kind, Field(FALSE, ""), Field(FALSE, 0), Field(FALSE, FALSE))
ServerSections ==
    {NoServer("absent"), NoServer("null")} \cup
    {ServerSection("map", h, p, r) :
       h \in Fields("", {"0.0.0.0"}), p \in Fields(0, {9000}), r \in Fields(FALSE, {FALSE})}

\* the section `model` (size, device, custom_model_path)
ModelSection(kind, size, device, custom) ==
    [kind |-> kind, size |-> size, device |-> device, custom_model_path |-> custom]
NoModel(kind) ==
    ModelSection(kind, Field(FALSE, ""), Field(FALSE, ""), Field(FALSE, ""))
ModelSections ==
    {NoModel("absent"), NoModel("null")} \cup
    {ModelSection("map", z, d, c) :
       z \in Fields("", {"nano", "huge"}), d \in Fields("", {"cuda"}),
       c \in Fields("", {"/models/custom.pt"})}

\* the section `inference` (thresholds in hundredths)
InferenceSection(kind, conf, iou, maxdet, imgsz, half, verbose) ==
    [kind |-> kind, conf_threshold |-> conf, iou_threshold |-> iou,
     max_detections |-> maxdet, img_size |-> imgsz, half_precision |-> half,
     verbose |-> verbose]
NoInference(kind) ==
    InferenceSection(kind, Field(FALSE, 0), Field(FALSE, 0), Field(FALSE, 0),
                     Field(FALSE, 0), Field(FALSE, FALSE), Field(FALSE, FALSE))
InferenceSections ==
    {NoInference("absent"), NoInference("null")} \cup
    {InferenceSection("map", c, i, m, z, h, v) :
       c \in Fields(0, {50}), i \in Fields(0, {60}), m \in Fields(0, {100}),
       z \in Fields(0, {320}), h \in Fields(FALSE, {TRUE}), v \in Fields(FALSE, {TRUE})}

Doc(server, mdl, inference, classes) ==
    [server |-> server, model |-> mdl, inference |-> inference, classes |-> classes]

\* `if not config`: a document without any top-level key is an empty document
IsEmptyDoc(doc) ==
    /\ doc.server.kind = "absent" /\ doc.model.kind = "absent"
    /\ doc.inference.kind = "absent" /\ doc.classes = "absent"

EmptyDoc == Doc(NoServer("absent"), NoModel("absent"), NoInference("absent"), "absent")

\* the documents _load_config returns
Docs ==
    {d \in [server : ServerSections, model : ModelSections,
            inference : InferenceSections, classes : ClassesInDoc] : ~IsEmptyDoc(d)}

\* ConfigurationManager.get_server_config: the ServerConfig, or the
\* AttributeError of None.get when the section has no value
get_server_config(doc) ==
    IF doc.server.kind = "null"
      THEN [ok |-> FALSE, host |-> "", port |-> 0, reload |-> FALSE]
      ELSE [ok |-> TRUE,
            host |-> get(doc.server.host, "127.0.0.1"),
            port |-> get(doc.server.port, 8000),
            reload |-> get(doc.server.reload, TRUE)]

\* ConfigurationManager.get_model_config
get_model_config(doc) ==
    IF doc.model.kind = "null"
      THEN [ok |-> FALSE, size |-> "", device |-> "", custom_model_path |-> ""]
      ELSE [ok |-> TRUE,
            size |-> get(doc.model.size, "small"),
            device |-> get(doc.model.device, "cpu"),
            custom_model_path |-> get(doc.model.custom_model_path, "")]

\* ConfigurationManager.get_inference_config
get_inference_config(doc) ==
    IF doc.inference.kind = "null"
      THEN [ok |-> FALSE, conf_threshold |-> 0, iou_threshold |-> 0,
            max_detections |-> 0, img_size |-> 0, half_precision |-> FALSE,
            verbose |-> FALSE]
      ELSE [ok |-> TRUE,
            conf_threshold |-> get(doc.inference.conf_threshold, 25),
            iou_threshold |-> get(doc.inference.iou_threshold, 45),
            max_detections |-> get(doc.inference.max_detections, 300),
            img_size |-> get(doc.inference.img_size, 640),
            half_precision |-> get(doc.inference.half_precision, FALSE),
            verbose |-> get(doc.inference.verbose, FALSE)]

\* the attributes of a ServerConfig object (a dataclass: its fields, no method)
ServerConfigAttrs == {"host", "port", "reload"}

\* -------------------------------------------------------------- model.py
\* ModelSize
ModelSizes == {"nano", "small", "medium", "large", "xlarge"}

\* PersonDetector.MODEL_FILES
MODEL_FILES(size) ==
    CASE size = "nano" -> "yolo11n.pt"
      [] size = "small" -> "yolo11s.pt"
      [] size = "medium" -> "yolo11m.pt"
      [] size = "large" -> "yolo11l.pt"
      [] OTHER -> "yolo11x.pt"

\* PersonDetector._get_model_path: the path, or the ValueError of
\* ModelSize(size) for a size that is no member
_get_model_path(model_config) ==
    IF model_config.custom_model_path # ""
      THEN [ok |-> TRUE, path |-> model_config.custom_model_path]
    ELSE IF model_config.size \in ModelSizes
      THEN [ok |-> TRUE, path |-> MODEL_FILES(model_config.size)]
    ELSE [ok |-> FALSE, path |-> ""]

\* the dictionary _load_model stores in _model_params
model_params(inference_config, device, classes) ==
    [set |-> TRUE,
     conf |-> inference_config.conf_threshold,
     iou |-> inference_config.iou_threshold,
     imgsz |-> inference_config.img_size,
     half |-> inference_config.half_precision,
     device |-> device,
     max_det |-> inference_config.max_detections,
     classes |-> classes,
     retina_masks |-> TRUE,
     verbose |-> FALSE]

\* torch.isin(result.boxes.cls, torch.tensor(classes_to_detect))
class_mask(boxes, classes) == [i \in 1..Len(boxes) |-> boxes[i].cls \in Range(classes)]

\* the selected elements in reverse index order
RECURSIVE MaskedReversed(_, _, _)
MaskedReversed(boxes, mask, i) ==
    IF i > Len(boxes) THEN <<>>
    ELSE IF mask[i] THEN MaskedReversed(boxes, mask, i + 1) \o <<boxes[i]>>
    ELSE MaskedReversed(boxes, mask, i + 1)

\* tensor[class_mask]: the elements the mask selects, in index order
RECURSIVE Masked(_, _, _)
Masked(boxes, mask, i) ==
    IF i > Len(boxes) THEN <<>>
    ELSE IF mask[i] THEN <<boxes[i]>> \o Masked(boxes, mask, i + 1)
    ELSE Masked(boxes, mask, i + 1)

\* the inner loop of _process_results over zip(class_confidences, class_bboxes)
RECURSIVE AppendBoxes(_, _, _)
AppendBoxes(acc, sel, i) ==
    IF i > Len(sel) THEN acc
    ELSE AppendBoxes(
           [detection_boxes |-> Append(acc.detection_boxes,
                                       [confidence |-> sel[i].conf, bbox |-> sel[i].bbox]),
            max_confidence |-> Max(acc.max_confidence, sel[i].conf)],
           sel, i + 1)

\* the outer loop of _process_results over results
RECURSIVE ProcessGroups(_, _, _, _)
ProcessGroups(acc, results, classes, g) ==
    IF g > Len(results) THEN acc
    ELSE LET boxes == results[g].boxes
             mask == class_mask(boxes, classes)
         IN IF results[g].none \/ Len(boxes) = 0
              THEN ProcessGroups(acc, results, classes, g + 1)
            ELSE IF \A i \in 1..Len(boxes) : ~mask[i]
              THEN ProcessGroups(acc, results, classes, g + 1)
            ELSE ProcessGroups(AppendBoxes(acc, Masked(boxes, mask, 1), 1),
                               results, classes, g + 1)

\* PersonDetector._process_results
_process_results(results, filename, classes) ==
    LET acc == ProcessGroups([detection_boxes |-> <<>>, max_confidence |-> 0],
                             results, classes, 1)
    IN [filename |-> filename,
        person_detected |-> Len(acc.detection_boxes) > 0,
        confidence |-> acc.max_confidence,
        num_persons |-> Len(acc.detection_boxes),
        person_boxes |-> acc.detection_boxes]

\* the fallback dictionary of detect_persons
SafeFallback(filename) ==
    [filename |-> filename, person_detected |-> FALSE, confidence |-> 0,
     num_persons |-> 0, person_boxes |-> <<>>]

\* the except clauses of detect_persons, for an exception of class exc raised in
\* its try block: "raise" (it leaves detect_persons) or "fallback"
detect_persons_except(exc) ==
    IF exc = "ValueError" THEN "raise"
    ELSE IF exc \in {"RuntimeError", "OSError"} THEN "fallback"
    ELSE "raise"

\* _decode_image_bytes: the exception class it raises, "none" when it returns an
\* array (cv2.imdecode gives None for bytes that are no image, cv2.cvtColor then
\* raises, and every Exception is re-raised as ValueError)
_decode_image_bytes(payload) == IF payload = "image" THEN "none" ELSE "ValueError"

\* ---------------------------------------------------------- inference.py
\* the gate without its test of the lifecycle state
GateModelOnly(st, mdl) == IF mdl = "None" THEN 503 ELSE 0

\* the two checks that open readiness and detect_person: the status of the
\* HTTPException raised, 0 when both pass
Gate(st, mdl) ==
    IF st # "ready" THEN 503
    ELSE IF mdl = "None" THEN 503
    ELSE 0

\* ------------------------------------------------------------------ state
VARIABLES
    state,        \* inference.state: "unset" (None) or an AppState value
    model,        \* inference.model: "None" or "PersonDetector"
    detector,     \* the PersonDetector object: _model, _model_params, classes_to_detect
    cfgFile,      \* the configuration file on disk
    cfgDoc,       \* the document in it, when it parses
    lifespan,     \* position of the lifespan coroutine
    signalled,    \* a termination signal has been received
    exited,       \* the process has exited
    req,          \* the request of each slot: kind, position, upload, gate reading
    running,      \* the request whose synchronous section holds the event loop, or 0
    resp,         \* the response the step just taken has sent, if it sent one
    loads,        \* YOLO(...) constructions that have succeeded
    loading,      \* YOLO(...) constructions in progress
    loadFailed,   \* a YOLO(...) construction has failed
    aggIn,        \* _process_results alone: its results and classes arguments
    aggOut,       \* _process_results alone: what it returned
    cfgIn,        \* configuration alone: the document _load_config returned
    cfgPc,        \* configuration alone: how far the accessors and the detector are
    cfgOut,       \* configuration alone: what each accessor and the detector gave
    mainPc,       \* the __main__ block: where it is, or the exception that ended it
    served        \* the __main__ block: the arguments uvicorn.run was called with

vars == <<state, model, detector, cfgFile, cfgDoc, lifespan, signalled, exited, req,
          running, resp, loads, loading, loadFailed, aggIn, aggOut,
          cfgIn, cfgPc, cfgOut, mainPc, served>>
svcVars == <<state, model, detector, cfgFile, cfgDoc, lifespan, signalled, exited, req,
             running, resp, loads, loading, loadFailed>>
aggVars == <<aggIn, aggOut>>
cfgVars == <<cfgIn, cfgPc, cfgOut, mainPc, served>>

Kinds == {"info", "livez", "readyz", "detect"}

NoBody == [filename |-> "", person_detected |-> FALSE, confidence |-> 0,
           num_persons |-> 0, person_boxes |-> <<>>]
Idle == [kind |-> "none", pc |-> "idle", payload |-> "none", filename |-> "",
         gateState |-> "unset", gateModel |-> "None"]
NoResp == [kind |-> "none", status |-> 0, hasBody |-> FALSE, body |-> NoBody,
           payload |-> "none", filename |-> "", gateState |-> "unset", gateModel |-> "None",
           afterSignal |-> FALSE,
           failPhase |-> "none", exc |-> "none", detect_persons |-> "none"]
\* PersonDetector.__init__: the model and its parameters are not loaded yet
NoParams == [set |-> FALSE, conf |-> 0, iou |-> 0, imgsz |-> 0, half |-> FALSE,
             device |-> "", max_det |-> 0, classes |-> <<>>, retina_masks |-> FALSE,
             verbose |-> FALSE]
NoDetector == [_model |-> FALSE, _model_params |-> NoParams,
               model_config |-> get_model_config(Doc(NoServer("absent"), NoModel("null"),
                                                     NoInference("absent"), "absent")),
               inference_config |-> get_inference_config(
                                      Doc(NoServer("absent"), NoModel("absent"),
                                          NoInference("null"), "absent")),
               device |-> "", classes_to_detect |-> <<>>]
NoAgg == [results |-> <<>>, classes |-> <<>>]

PersonDetector_init(model_config, inference_config, classes) ==
    [_model |-> FALSE, _model_params |-> NoParams,
     model_config |-> model_config, inference_config |-> inference_config,
     device |-> model_config.device, classes_to_detect |-> classes]

\* the documents of the service runs: each classes_to_detect, a valid and an
\* unknown model size, a custom model path, a section without a value
ServiceDocs ==
    {Doc(NoServer("absent"), NoModel("absent"), NoInference("absent"), "dog"),
     Doc(NoServer("absent"), NoModel("absent"),
         InferenceSection("map", Field(TRUE, 50), Field(FALSE, 0), Field(FALSE, 0),
                          Field(FALSE, 0), Field(FALSE, FALSE), Field(TRUE, TRUE)),
         "person_dog"),
     Doc(NoServer("absent"),
         ModelSection("map", Field(TRUE, "nano"), Field(TRUE, "cuda"), Field(FALSE, "")),
         NoInference("absent"), "absent"),
     Doc(NoServer("absent"),
         ModelSection("map", Field(TRUE, "huge"), Field(FALSE, ""), Field(FALSE, "")),
         NoInference("absent"), "absent"),
     Doc(NoServer("absent"),
         ModelSection("map", Field(TRUE, "huge"), Field(FALSE, ""),
                      Field(TRUE, "/models/custom.pt")),
         NoInference("absent"), "absent"),
     Doc(NoServer("absent"), NoModel("null"), NoInference("absent"), "absent")}

NoCfgOut == [server |-> get_server_config(Doc(NoServer("null"), NoModel("absent"),
                                              NoInference("absent"), "absent")),
             model |-> NoDetector.model_config,
             inference |-> NoDetector.inference_config,
             classes |-> <<>>,
             detector |-> NoDetector]
NoServed == [host |-> "", port |-> 0, reload |-> FALSE]

Init ==
    /\ state = "unset"
    /\ model = "None"
    /\ detector = NoDetector
    /\ cfgFile \in CfgFiles
    /\ cfgDoc \in IF cfgFile = "ok" THEN ServiceDocs ELSE {EmptyDoc}
    /\ lifespan = "notstarted"
    /\ signalled = FALSE
    /\ exited = FALSE
    /\ req = [r \in Reqs |-> Idle]
    /\ running = 0
    /\ resp = NoResp
    /\ loads = 0
    /\ loading = 0
    /\ loadFailed = FALSE
    /\ aggIn = NoAgg
    /\ aggOut = NoBody
    /\ cfgIn = EmptyDoc
    /\ cfgPc = "start"
    /\ cfgOut = NoCfgOut
    /\ mainPc = "start"
    /\ served = NoServed

\* a coroutine step of request r can run when no other request's synchronous
\* section holds the event loop
CanRun(r) == running \in {0, r}

\* the response to request q (a slot's record), with what the run had seen
\* when it was sent
Respond(q, status, hasBody, body, phase, exc, outcome) ==
    resp' = [kind |-> q.kind, status |-> status, hasBody |-> hasBody,
             body |-> body, payload |-> q.payload, filename |-> q.filename,
             gateState |-> q.gateState, gateModel |-> q.gateModel,
             afterSignal |-> signalled,
             failPhase |-> phase, exc |-> exc, detect_persons |-> outcome]

\* a response without a body that leaves the slot
Answer(r, q, status) ==
    /\ Respond(q, status, FALSE, NoBody, "none", "none", "none")
    /\ req' = [req EXCEPT ![r] = Idle]

AtGate(r) == [req[r] EXCEPT !.gateState = state, !.gateModel = model]

\* file.filename or "uploaded_image"
FilenameOf(q) == IF q.filename = "" THEN "uploaded_image" ELSE q.filename

\* ---------------------------------------------------------------- lifespan
\* lifespan up to the exception ConfigurationManager() raises
StartupConfigFails ==
    /\ lifespan = "notstarted" /\ running = 0 /\ ~exited
    /\ _load_config(cfgFile) # "ok"
    /\ state' = "initializing"
    /\ lifespan' = "failed"
    /\ resp' = NoResp
    /\ UNCHANGED <<model, detector, cfgFile, cfgDoc, signalled, exited, req, running,
                   loads, loading, loadFailed, aggVars, cfgVars>>

\* lifespan up to an exception of load_model: the AttributeError of an accessor
\* on a section without a value, or the OSError of models_dir.mkdir in
\* PersonDetector.__init__
StartupDetectorFails ==
    /\ lifespan = "notstarted" /\ running = 0 /\ ~exited
    /\ _load_config(cfgFile) = "ok"
    /\ state' = "initializing"
    /\ lifespan' = "failed"
    /\ resp' = NoResp
    /\ UNCHANGED <<model, detector, cfgFile, cfgDoc, signalled, exited, req, running,
                   loads, loading, loadFailed, aggVars, cfgVars>>

\* lifespan binding the detector to a local name instead of the global
StartupReady_model_local ==
    /\ lifespan = "notstarted" /\ running = 0 /\ ~exited
    /\ _load_config(cfgFile) = "ok"
    /\ get_model_config(cfgDoc).ok /\ get_inference_config(cfgDoc).ok
    /\ detector' = PersonDetector_init(get_model_config(cfgDoc),
                                       get_inference_config(cfgDoc),
                                       get_classes_to_detect(cfgDoc))
    /\ state' = "ready"
    /\ lifespan' = "serving"
    /\ resp' = NoResp
    /\ UNCHANGED <<model, cfgFile, cfgDoc, signalled, exited, req, running, loads,
                   loading, loadFailed, aggVars, cfgVars>>

\* lifespan up to its yield: configuration loaded, detector constructed (its
\* model not loaded), state READY
StartupReady ==
    /\ lifespan = "notstarted" /\ running = 0 /\ ~exited
    /\ _load_config(cfgFile) = "ok"
    /\ get_model_config(cfgDoc).ok /\ get_inference_config(cfgDoc).ok
    /\ detector' = PersonDetector_init(get_model_config(cfgDoc),
                                       get_inference_config(cfgDoc),
                                       get_classes_to_detect(cfgDoc))
    /\ model' = "PersonDetector"
    /\ state' = "ready"
    /\ lifespan' = "serving"
    /\ resp' = NoResp
    /\ UNCHANGED <<cfgFile, cfgDoc, signalled, exited, req, running, loads, loading, loadFailed, aggVars, cfgVars>>

\* the process receives a termination signal: nothing in the application
\* handles it, the server finishes its requests and then resumes lifespan
Signal ==
    /\ lifespan = "serving" /\ ~signalled /\ ~exited
    /\ signalled' = TRUE
    /\ resp' = NoResp
    /\ UNCHANGED <<state, model, detector, cfgFile, cfgDoc, lifespan, exited, req,
                   running, loads, loading, loadFailed, aggVars, cfgVars>>

\* lifespan writing INITIALIZING after its yield
StateAfterYieldInitializing == "initializing"

\* the state lifespan writes after its yield
StateAfterYield == "shutting_down"

\* lifespan after its yield, resumed by the server that is shutting down
LifespanShutdown ==
    /\ lifespan = "serving" /\ signalled /\ running = 0 /\ ~exited
    /\ state' = StateAfterYield
    /\ lifespan' = "stopped"
    /\ resp' = NoResp
    /\ UNCHANGED <<model, detector, cfgFile, cfgDoc, signalled, exited, req, running,
                   loads, loading, loadFailed, aggVars, cfgVars>>

\* the process exits once lifespan is over and no request is left
Exit ==
    /\ lifespan \in {"failed", "stopped"} /\ ~exited
    /\ \A r \in Reqs : req[r].pc = "idle"
    /\ exited' = TRUE
    /\ resp' = NoResp
    /\ UNCHANGED <<state, model, detector, cfgFile, cfgDoc, lifespan, signalled, req,
                   running, loads, loading, loadFailed, aggVars, cfgVars>>

\* ---------------------------------------------------------------- requests
\* the server hands a request of kind k to the application
Arrive(r, k) ==
    /\ ~exited
    /\ req[r].pc = "idle"
    /\ req' = [req EXCEPT ![r] = [Idle EXCEPT !.kind = k, !.pc = "arrived"]]
    /\ resp' = NoResp
    /\ UNCHANGED <<state, model, detector, cfgFile, cfgDoc, lifespan, signalled, exited,
                   running, loads, loading, loadFailed, aggVars, cfgVars>>

\* GET /
info(r) ==
    /\ ~exited /\ CanRun(r)
    /\ req[r].pc = "arrived" /\ req[r].kind = "info"
    /\ Answer(r, req[r], 200)
    /\ UNCHANGED <<state, model, detector, cfgFile, cfgDoc, lifespan, signalled, exited,
                   running, loads, loading, loadFailed, aggVars, cfgVars>>

\* a liveness probe that answers as the readiness probe does
LivenessStatusWhenReady == IF state = "ready" /\ model # "None" THEN 200 ELSE 503

\* the status of the Response liveness returns
LivenessStatus == 200

\* GET /livez
liveness(r) ==
    /\ ~exited /\ CanRun(r)
    /\ req[r].pc = "arrived" /\ req[r].kind = "livez"
    /\ Answer(r, req[r], LivenessStatus)
    /\ UNCHANGED <<state, model, detector, cfgFile, cfgDoc, lifespan, signalled, exited,
                   running, loads, loading, loadFailed, aggVars, cfgVars>>

\* GET /readyz
readiness(r) ==
    /\ ~exited /\ CanRun(r)
    /\ req[r].pc = "arrived" /\ req[r].kind = "readyz"
    /\ Answer(r, AtGate(r), IF Gate(state, model) # 0 THEN Gate(state, model) ELSE 200)
    /\ UNCHANGED <<state, model, detector, cfgFile, cfgDoc, lifespan, signalled, exited,
                   running, loads, loading, loadFailed, aggVars, cfgVars>>

\* ------------------------------------------------------------ POST /detect
\* detect_persons has raised or caught an exception of class exc in the given
\* phase: its fallback is a 200 body, what it raises reaches the except
\* Exception of detect_person and becomes a 500
Fail(r, phase, exc) ==
    /\ IF detect_persons_except(exc) = "fallback"
         THEN Respond(req[r], 200, TRUE, SafeFallback(FilenameOf(req[r])),
                      phase, exc, "fallback")
         ELSE Respond(req[r], 500, FALSE, NoBody, phase, exc, "raise")
    /\ req' = [req EXCEPT ![r] = Idle]
    /\ running' = 0

\* detect_person up to its await: the two checks, then file.read() is awaited
detect_person_gate(r) ==
    /\ ~exited /\ CanRun(r)
    /\ req[r].pc = "arrived" /\ req[r].kind = "detect"
    /\ IF Gate(state, model) # 0
         THEN Answer(r, AtGate(r), Gate(state, model))
         ELSE /\ req' = [req EXCEPT ![r] = [AtGate(r) EXCEPT !.pc = "reading"]]
              /\ resp' = NoResp
    /\ UNCHANGED <<state, model, detector, cfgFile, cfgDoc, lifespan, signalled, exited,
                   running, loads, loading, loadFailed, aggVars, cfgVars>>

\* detect_person testing the state again once the upload is read
detect_person_read_regated(r, p, f) ==
    /\ ~exited /\ CanRun(r)
    /\ req[r].pc = "reading"
    /\ IF Gate(state, model) # 0
         THEN Answer(r, [req[r] EXCEPT !.payload = p, !.filename = f], Gate(state, model))
              /\ UNCHANGED running
         ELSE IF p = "empty"
         THEN Answer(r, [req[r] EXCEPT !.payload = p, !.filename = f], 400)
              /\ UNCHANGED running
         ELSE /\ req' = [req EXCEPT ![r] = [req[r] EXCEPT !.pc = "decode",
                                                          !.payload = p, !.filename = f]]
              /\ running' = r
              /\ resp' = NoResp
    /\ UNCHANGED <<state, model, detector, cfgFile, cfgDoc, lifespan, signalled, exited,
                   loads, loading, loadFailed, aggVars, cfgVars>>

\* detect_person resumes with the upload, bytes p under filename f: 400 for an
\* empty one, else it calls detect_persons and holds the event loop until that
\* returns
detect_person_read(r, p, f) ==
    /\ ~exited /\ CanRun(r)
    /\ req[r].pc = "reading"
    /\ IF p = "empty"
         THEN Answer(r, [req[r] EXCEPT !.payload = p, !.filename = f], 400)
              /\ UNCHANGED running
         ELSE /\ req' = [req EXCEPT ![r] = [req[r] EXCEPT !.pc = "decode",
                                                          !.payload = p, !.filename = f]]
              /\ running' = r
              /\ resp' = NoResp
    /\ UNCHANGED <<state, model, detector, cfgFile, cfgDoc, lifespan, signalled, exited,
                   loads, loading, loadFailed, aggVars, cfgVars>>

\* detect_persons: image = self._decode_image_bytes(image_data)
decode(r) ==
    /\ ~exited /\ CanRun(r)
    /\ req[r].pc = "decode"
    /\ IF _decode_image_bytes(req[r].payload) = "none"
         THEN /\ req' = [req EXCEPT ![r].pc = "model"]
              /\ resp' = NoResp
              /\ UNCHANGED running
         ELSE Fail(r, "decode", _decode_image_bytes(req[r].payload))
    /\ UNCHANGED <<state, model, detector, cfgFile, cfgDoc, lifespan, signalled, exited,
                   loads, loading, loadFailed, aggVars, cfgVars>>

\* a load on every use of the model property
NeedsLoadAlways(d) == TRUE

\* the test of the model property and of _load_model: is there a model to load
NeedsLoad(d) == ~d._model

\* detect_persons: self.model, which starts _load_model when no model is held;
\* _load_model resolves the path first, outside its try block, so the
\* ValueError of an unknown size leaves detect_persons as it is
model_property(r) ==
    /\ ~exited /\ CanRun(r)
    /\ req[r].pc = "model"
    /\ IF ~NeedsLoad(detector)
         THEN /\ req' = [req EXCEPT ![r].pc = "predict"]
              /\ resp' = NoResp
              /\ UNCHANGED <<loading, running>>
         ELSE IF _get_model_path(detector.model_config).ok
         THEN /\ req' = [req EXCEPT ![r].pc = "loading"]
              /\ loading' = loading + 1
              /\ resp' = NoResp
              /\ UNCHANGED running
         ELSE /\ Fail(r, "load", "ValueError")
              /\ UNCHANGED loading
    /\ UNCHANGED <<state, model, detector, cfgFile, cfgDoc, lifespan, signalled, exited,
                   loads, loadFailed, aggVars, cfgVars>>

\* _load_model: YOLO(path) returns and the parameters are set
_load_model_ok(r) ==
    /\ ~exited /\ CanRun(r)
    /\ req[r].pc = "loading"
    /\ detector' = [detector EXCEPT
                      !._model = TRUE,
                      !._model_params = model_params(detector.inference_config,
                                                     detector.device,
                                                     detector.classes_to_detect)]
    /\ loads' = loads + 1
    /\ loading' = loading - 1
    /\ req' = [req EXCEPT ![r].pc = "predict"]
    /\ resp' = NoResp
    /\ UNCHANGED <<state, model, cfgFile, cfgDoc, lifespan, signalled, exited, running,
                   loadFailed, aggVars, cfgVars>>

\* _load_model keeping a model handle although the load has failed
_load_model_fails_keeps_handle(r) ==
    /\ ~exited /\ CanRun(r)
    /\ req[r].pc = "loading"
    /\ loadFailed' = TRUE
    /\ loading' = loading - 1
    /\ detector' = [detector EXCEPT !._model = TRUE]
    /\ Fail(r, "load", "RuntimeError")
    /\ UNCHANGED <<state, model, cfgFile, cfgDoc, lifespan, signalled, exited,
                   loads, aggVars, cfgVars>>

\* _load_model: YOLO(path) raises, re-raised as RuntimeError
_load_model_fails(r) ==
    /\ ~exited /\ CanRun(r)
    /\ req[r].pc = "loading"
    /\ loadFailed' = TRUE
    /\ loading' = loading - 1
    /\ Fail(r, "load", "RuntimeError")
    /\ UNCHANGED <<state, model, detector, cfgFile, cfgDoc, lifespan, signalled, exited,
                   loads, aggVars, cfgVars>>

\* detect_person dropping the global detector when detect_persons has raised
predict_raises_clears_model(r, exc) ==
    /\ ~exited /\ CanRun(r)
    /\ req[r].pc = "predict"
    /\ IF detector._model_params.set
         THEN Fail(r, "predict", exc)
         ELSE Fail(r, "load", "RuntimeError")
    /\ model' = IF detect_persons_except(exc) = "raise" THEN "None" ELSE model
    /\ UNCHANGED <<state, detector, cfgFile, cfgDoc, lifespan, signalled, exited,
                   loads, loading, loadFailed, aggVars, cfgVars>>

\* detect_persons: self.model_params, predict raises an exception of class exc
predict_raises(r, exc) ==
    /\ ~exited /\ CanRun(r)
    /\ req[r].pc = "predict"
    /\ IF detector._model_params.set
         THEN Fail(r, "predict", exc)
         ELSE Fail(r, "load", "RuntimeError")
    /\ UNCHANGED <<state, model, detector, cfgFile, cfgDoc, lifespan, signalled, exited,
                   loads, loading, loadFailed, aggVars, cfgVars>>

\* detect_persons: self.model_params, predict returns raw, _process_results
predict_returns(r, raw) ==
    /\ ~exited /\ CanRun(r)
    /\ req[r].pc = "predict"
    /\ IF detector._model_params.set
         THEN Respond(req[r], 200, TRUE,
                      _process_results(raw, FilenameOf(req[r]), detector.classes_to_detect),
                      "none", "none", "return")
         ELSE Respond(req[r], 200, TRUE, SafeFallback(FilenameOf(req[r])),
                      "load", "RuntimeError", "fallback")
    /\ req' = [req EXCEPT ![r] = Idle]
    /\ running' = 0
    /\ UNCHANGED <<state, model, detector, cfgFile, cfgDoc, lifespan, signalled, exited,
                   loads, loading, loadFailed, aggVars, cfgVars>>

PredictOutputs == RawOutputs(PredDetections, MaxPredGroups, MaxPredBoxes)

Next ==
    \/ StartupConfigFails
    \/ StartupDetectorFails
    \/ StartupReady
    \/ Signal
    \/ LifespanShutdown
    \/ Exit
    \/ \E r \in Reqs, k \in Kinds : Arrive(r, k)
    \/ \E r \in Reqs : info(r)
    \/ \E r \in Reqs : liveness(r)
    \/ \E r \in Reqs : readiness(r)
    \/ \E r \in Reqs : detect_person_gate(r)
    \/ \E r \in Reqs, p \in Payloads, f \in Filenames : detect_person_read(r, p, f)
    \/ \E r \in Reqs : decode(r)
    \/ \E r \in Reqs : model_property(r)
    \/ \E r \in Reqs : _load_model_ok(r)
    \/ \E r \in Reqs : _load_model_fails(r)
    \/ \E r \in Reqs, exc \in ExcClasses : predict_raises(r, exc)
    \/ \E r \in Reqs, raw \in PredictOutputs : predict_returns(r, raw)

Spec == Init /\ [][Next]_vars

\* ------------------------------------------- _process_results on its own
\* the arguments of one call: any raw detector output within the bounds, and
\* the classes_to_detect of any configuration document
InitAgg ==
    /\ state = "unset"
    /\ model = "None"
    /\ detector = NoDetector
    /\ cfgFile = "ok"
    /\ cfgDoc \in ServiceDocs
    /\ lifespan = "notstarted"
    /\ signalled = FALSE
    /\ exited = FALSE
    /\ req = [r \in Reqs |-> Idle]
    /\ running = 0
    /\ resp = NoResp
    /\ loads = 0
    /\ loading = 0
    /\ loadFailed = FALSE
    /\ aggIn \in [results : RawOutputs(Detections, MaxGroups, MaxBoxes),
                  classes : {get_classes_to_detect(cfgDoc)}]
    /\ aggOut = NoBody
    /\ cfgIn = EmptyDoc
    /\ cfgPc = "start"
    /\ cfgOut = NoCfgOut
    /\ mainPc = "start"
    /\ served = NoServed

\* one call of _process_results
Aggregate ==
    /\ aggOut = NoBody
    /\ aggOut' = _process_results(aggIn.results, "cam.jpg", aggIn.classes)
    /\ UNCHANGED <<svcVars, aggIn, cfgVars>>

NextAgg == Aggregate

SpecAgg == InitAgg /\ [][NextAgg]_vars

\* ---- the configuration alone: accessors, detector construction, first load,
\* ---- and the __main__ block, for every document _load_config returns
InitCfg ==
    /\ state = "unset"
    /\ model = "None"
    /\ detector = NoDetector
    /\ cfgFile = "ok"
    /\ cfgDoc = EmptyDoc
    /\ lifespan = "notstarted"
    /\ signalled = FALSE
    /\ exited = FALSE
    /\ req = [r \in Reqs |-> Idle]
    /\ running = 0
    /\ resp = NoResp
    /\ loads = 0
    /\ loading = 0
    /\ loadFailed = FALSE
    /\ aggIn = NoAgg
    /\ aggOut = NoBody
    /\ cfgIn \in Docs
    /\ cfgPc = "start"
    /\ cfgOut = NoCfgOut
    /\ mainPc = "start"
    /\ served = NoServed

\* each accessor of ConfigurationManager called once on the document
Accessors ==
    /\ cfgPc = "start"
    /\ cfgPc' = "accessed"
    /\ cfgOut' = [cfgOut EXCEPT !.server = get_server_config(cfgIn),
                                !.model = get_model_config(cfgIn),
                                !.inference = get_inference_config(cfgIn),
                                !.classes = get_classes_to_detect(cfgIn)]
    /\ UNCHANGED <<svcVars, aggVars, cfgIn, mainPc, served>>

\* load_model: PersonDetector(...) from the three accessors it calls, with a
\* models directory that can be created; the exception of an accessor leaves it
Construct ==
    /\ cfgPc = "accessed"
    /\ IF cfgOut.model.ok /\ cfgOut.inference.ok
         THEN /\ cfgPc' = "constructed"
              /\ cfgOut' = [cfgOut EXCEPT !.detector =
                              PersonDetector_init(cfgOut.model, cfgOut.inference,
                                                  cfgOut.classes)]
         ELSE /\ cfgPc' = "AttributeError"
              /\ UNCHANGED cfgOut
    /\ UNCHANGED <<svcVars, aggVars, cfgIn, mainPc, served>>

\* the first self.model of the detector, with a model file YOLO can load
LoadModel ==
    /\ cfgPc = "constructed"
    /\ IF _get_model_path(cfgOut.detector.model_config).ok
         THEN /\ cfgPc' = "loaded"
              /\ cfgOut' = [cfgOut EXCEPT
                              !.detector._model = TRUE,
                              !.detector._model_params =
                                  model_params(cfgOut.detector.inference_config,
                                               cfgOut.detector.device,
                                               cfgOut.detector.classes_to_detect)]
         ELSE /\ cfgPc' = "ValueError"
              /\ UNCHANGED cfgOut
    /\ UNCHANGED <<svcVars, aggVars, cfgIn, mainPc, served>>

\* the __main__ block: get_server_config(), then server_config.get(...) for
\* each argument of uvicorn.run, an attribute lookup on the ServerConfig object
Main ==
    /\ mainPc = "start"
    /\ LET server_config == get_server_config(cfgIn) IN
         IF server_config.ok /\ "get" \in ServerConfigAttrs
           THEN /\ mainPc' = "serving"
                /\ served' = [host |-> server_config.host,
                              port |-> server_config.port,
                              reload |-> server_config.reload]
           ELSE /\ mainPc' = "AttributeError"
                /\ UNCHANGED served
    /\ UNCHANGED <<svcVars, aggVars, cfgIn, cfgPc, cfgOut>>

NextCfg == Accessors \/ Construct \/ LoadModel \/ Main

SpecCfg == InitCfg /\ [][NextCfg]_vars

\* ------------------------------------------------------------------ claims
Gated == {"readyz", "detect"}

\* C1: a /detect or /readyz request whose gate is evaluated while the state is
\* not Ready, or while the detector reference is absent, is answered 503 in
\* that very step; for /detect the request ends there: no upload is read, no
\* load or inference starts, and no global changes.
C1_GateRejects ==
    [][\A r \in Reqs :
         ( /\ req[r].pc = "arrived" /\ req[r].kind \in Gated
           /\ req'[r] # req[r]
           /\ (state # "ready" \/ model = "None") )
         => /\ resp'.kind = req[r].kind /\ resp'.status = 503 /\ ~resp'.hasBody
            /\ resp'.payload = "none"
            /\ req'[r] = Idle
            /\ UNCHANGED <<state, model, detector, lifespan, running, loads, loading,
                           loadFailed>>]_vars

C1_Witness ==
    /\ resp.kind = "detect" /\ resp.status = 503
    /\ resp.gateState = "shutting_down" /\ resp.payload = "none"

\* C2: every /readyz request answered after the termination signal returns
\* 503, and every /livez request answered returns 200.
C2_UnavailableAfterSignal ==
    /\ (resp.kind = "readyz" /\ resp.afterSignal) => resp.status = 503
    /\ resp.kind = "livez" => resp.status = 200

\* C3: once a model load has failed the state is not Ready, and every /readyz
\* and /detect response is a 503.
C3_LoadFailureNeverReady ==
    loadFailed => /\ state # "ready"
                  /\ resp.kind \in Gated => resp.status = 503

\* C4: a /detect request admitted in state Ready whose upload is zero-length or
\* no decodable image is answered 400.
C4_BadUploadIs400 ==
    ( /\ resp.kind = "detect"
      /\ resp.gateState = "ready" /\ resp.gateModel = "PersonDetector"
      /\ resp.payload \in {"empty", "garbage"} )
    => resp.status = 400

\* C5: in detect_persons a failure of decoding leaves as an error, and a failure
\* while loading or invoking the model, whatever its class, is returned as the
\* safe empty result for the request's filename.
C5_FailureAsymmetry ==
    resp.kind = "detect" =>
      /\ resp.failPhase = "decode" => resp.detect_persons = "raise"
      /\ resp.failPhase \in {"load", "predict"} =>
           /\ resp.detect_persons = "fallback"
           /\ resp.body = [filename |-> IF resp.filename = "" THEN "uploaded_image"
                                        ELSE resp.filename,
                           person_detected |-> FALSE, confidence |-> 0,
                           num_persons |-> 0, person_boxes |-> <<>>]

InFlight == {"reading", "decode", "model", "loading", "predict"}
InCall == {"decode", "model", "loading", "predict"}

\* C6: the model is loaded at most once and by one request at a time: no load
\* is in progress beside another or once the model is held, a request that
\* reaches predict finds the one loaded model, and no admitted request is lost
\* (it holds the event loop, or waits for a request that does, or the loop is
\* free for it).
C6_SingleLoad ==
    /\ loads <= 1
    /\ loading <= 1
    /\ detector._model => (loads = 1 /\ loading = 0)
    /\ \A r \in Reqs :
         /\ req[r].pc = "predict" => (detector._model /\ loads = 1)
         /\ req[r].pc \in InFlight =>
              /\ ~exited
              /\ \/ running = r
                 \/ running = 0 /\ req[r].pc = "reading"
                 \/ running \in Reqs \ {r} /\ req[running].pc \in InCall
                    /\ req[r].pc = "reading"

C6_Witness ==
    /\ loads = 1
    /\ \E r \in Reqs : \E q \in Reqs \ {r} :
         req[r].pc = "model" /\ req[q].pc = "reading"

Rank(st) ==
    CASE st = "unset" -> 0
      [] st = "initializing" -> 1
      [] st = "ready" -> 2
      [] st = "shutting_down" -> 3

\* C7: the lifecycle state only moves forward, None -> Initializing -> Ready ->
\* ShuttingDown; once it has left Ready it is never Ready again.  (lifespan
\* writes INITIALIZING and READY without an await between them, so the one
\* step into Ready starts from None.)
C7_StateForward ==
    [][/\ Rank(state') >= Rank(state)
       /\ (state # "ready" /\ state' = "ready") => state = "unset"]_vars

C7_Witness == state = "shutting_down" /\ resp.kind = "readyz"

\* C8: with a configuration file that is missing, empty or unparsable, lifespan
\* fails at ConfigurationManager(): the state is never Ready, it stays
\* Initializing from then on, and no /readyz or /detect response is a 200.
C8_BadConfigNeverReady ==
    cfgFile \in {"missing", "empty", "unparsable"} =>
      /\ state # "ready"
      /\ lifespan # "notstarted" => (state = "initializing" /\ lifespan = "failed")
      /\ model = "None"
      /\ resp.kind \in Gated => resp.status = 503

C8_Witness ==
    /\ cfgFile = "empty" /\ lifespan = "failed" /\ state = "initializing"
    /\ resp.kind = "detect" /\ resp.status = 503

\* the positions <<group, index>> of the raw output whose class is a target class
TargetAt(results, classes) ==
    UNION {{<<g, i>> : i \in {j \in 1..Len(results[g].boxes) :
                                \E k \in 1..Len(classes) :
                                   classes[k] = results[g].boxes[j].cls}}
           : g \in {h \in 1..Len(results) : ~results[h].none}}
RawAt(results, p) == results[p[1]].boxes[p[2]]
Before(p, q) == p[1] < q[1] \/ (p[1] = q[1] /\ p[2] < q[2])
Called == aggOut # NoBody

\* C9: num_persons is the number N of raw detections of a target class,
\* person_boxes has length N, person_detected is N > 0, and confidence is the
\* greatest confidence among them, 0.0 when there is none.
C9_Aggregate ==
    Called =>
      LET T == TargetAt(aggIn.results, aggIn.classes)
          N == Cardinality(T)
      IN /\ aggOut.num_persons = N
         /\ Len(aggOut.person_boxes) = N
         /\ aggOut.person_detected = (N > 0)
         /\ IF N = 0 THEN aggOut.confidence = 0
            ELSE /\ \E p \in T : RawAt(aggIn.results, p).conf = aggOut.confidence
                 /\ \A p \in T : RawAt(aggIn.results, p).conf <= aggOut.confidence

C9_Witness ==
    /\ Called /\ aggOut.num_persons = 2 /\ aggOut.confidence = 90
    /\ aggOut.person_boxes[2].confidence = 87
    /\ \E g \in 1..Len(aggIn.results) : \E i \in 1..Len(aggIn.results[g].boxes) :
         aggIn.results[g].boxes[i].cls = 16
    /\ aggIn.classes = <<PersonClass>>

\* C10: person_boxes is the raw detections of the target classes, all of them
\* and no other, in the detector's order across and within the result groups.
C10_OrderedSubsequence ==
    Called =>
      LET T == TargetAt(aggIn.results, aggIn.classes)
      IN /\ Len(aggOut.person_boxes) = Cardinality(T)
         /\ \A p \in T :
              LET k == Cardinality({q \in T : Before(q, p)}) + 1
              IN aggOut.person_boxes[k] =
                   [confidence |-> RawAt(aggIn.results, p).conf,
                    bbox |-> RawAt(aggIn.results, p).bbox]

C10_Witness ==
    /\ Called /\ Len(aggIn.results) = 2
    /\ Len(aggIn.results[1].boxes) = 2 /\ Len(aggIn.results[2].boxes) = 2
    /\ aggIn.results[1].boxes[1].cls = 16
    /\ aggOut.num_persons = 3
    /\ aggOut.person_boxes[1].bbox # aggOut.person_boxes[2].bbox
    /\ aggIn.classes = <<PersonClass>>

\* C11: /livez answers 200 without a body whenever it answers, in every
\* lifecycle state and with or without a detector or a loaded model.
C11_LivenessUnconditional ==
    [][\A r \in Reqs :
         (req[r].pc = "arrived" /\ req[r].kind = "livez" /\ req'[r] # req[r])
         => /\ resp'.kind = "livez" /\ resp'.status = 200 /\ ~resp'.hasBody
            /\ req'[r] = Idle]_vars

C11_Witness ==
    /\ resp.kind = "livez" /\ resp.status = 200
    /\ state = "initializing" /\ model = "None"
\* the value the document gives a field, or the default when the section or
\* the field is not written
Documented(section, name, default) ==
    IF section.kind = "map" /\ section[name].set THEN section[name].val ELSE default

\* C12: on every non-empty document no accessor fails, and each returns the
\* document's value for a written field and the default (127.0.0.1, 8000,
\* small, cpu, 0.25, 0.45, 300, 640, [0]) for one that is not written.
C12_AccessorDefaults ==
    cfgPc # "start" =>
      /\ cfgOut.server.ok /\ cfgOut.model.ok /\ cfgOut.inference.ok
      /\ cfgOut.server.host = Documented(cfgIn.server, "host", "127.0.0.1")
      /\ cfgOut.server.port = Documented(cfgIn.server, "port", 8000)
      /\ cfgOut.model.size = Documented(cfgIn.model, "size", "small")
      /\ cfgOut.model.device = Documented(cfgIn.model, "device", "cpu")
      /\ cfgOut.inference.conf_threshold =
           Documented(cfgIn.inference, "conf_threshold", 25)
      /\ cfgOut.inference.iou_threshold =
           Documented(cfgIn.inference, "iou_threshold", 45)
      /\ cfgOut.inference.max_detections =
           Documented(cfgIn.inference, "max_detections", 300)
      /\ cfgOut.inference.img_size = Documented(cfgIn.inference, "img_size", 640)
      /\ cfgOut.classes = IF cfgIn.classes = "absent" THEN <<0>>
                          ELSE get_classes_to_detect(cfgIn)
\* C13: while a /detect request is loading the model or running inference, a
\* /readyz or /livez request that has arrived can be handled at once.
C13_ProbesNotBlocked ==
    \A r \in Reqs : \A q \in Reqs :
      (/\ ~exited
       /\ req[r].kind = "detect" /\ req[r].pc \in {"loading", "predict"}
       /\ req[q].pc = "arrived" /\ req[q].kind \in {"readyz", "livez"})
      => ENABLED (readiness(q) \/ liveness(q))
\* C14: a /detect request admitted while the state was Ready stays admitted
\* whatever the state becomes: each of its steps takes it further into
\* detect_person or ends it with the 400 of an empty upload, a 200 body or the
\* 500 of a raised exception, never with a 503, and no step that changes the
\* state touches it.
C14_AdmittedCompletes ==
    [][\A r \in Reqs :
         (req[r].kind = "detect" /\ req[r].pc \in InFlight)
         => /\ req[r].gateState = "ready"
            /\ state' # state => req'[r] = req[r]
            /\ req'[r] # req[r] =>
                 \/ /\ req'[r].kind = "detect" /\ req'[r].pc \in InFlight
                    /\ req'[r].gateState = "ready"
                 \/ /\ req'[r] = Idle
                    /\ resp'.kind = "detect" /\ resp'.gateState = "ready"
                    /\ resp'.status \in {200, 400, 500}
                    /\ resp'.status = 200 <=> resp'.hasBody
                    /\ resp'.status = 400 <=> resp'.payload = "empty"]_vars

C14_Witness ==
    /\ state = "shutting_down"
    /\ resp.kind = "detect" /\ resp.gateState = "ready"
    /\ resp.status = 200 /\ resp.detect_persons = "return"
\* C15: the parameters the model is invoked with are those of the
\* configuration the detector was constructed with: confidence, IoU, image
\* size, device, half precision, max detections, target classes, verbosity.
C15_ResolvedParams ==
    cfgPc = "loaded" =>
      LET d == cfgOut.detector
          p == d._model_params
      IN /\ p.set
         /\ p.conf = d.inference_config.conf_threshold
         /\ p.iou = d.inference_config.iou_threshold
         /\ p.imgsz = d.inference_config.img_size
         /\ p.device = d.model_config.device
         /\ p.half = d.inference_config.half_precision
         /\ p.max_det = d.inference_config.max_detections
         /\ p.classes = d.classes_to_detect
         /\ p.verbose = d.inference_config.verbose
\* C16: with a model size that is no member of nano, small, medium, large,
\* xlarge and no custom model path, startup fails: the service is never Ready
\* and no other model is loaded in place of the one asked for.
C16_UnknownSizeFailsFast ==
    (/\ cfgFile = "ok"
     /\ cfgDoc.model.kind = "map"
     /\ ~cfgDoc.model.custom_model_path.set
     /\ cfgDoc.model.size.set /\ cfgDoc.model.size.val \notin ModelSizes)
    => /\ state # "ready"
       /\ ~detector._model
\* C17: a step of a request handler, whatever its outcome, leaves the
\* lifecycle state, the global detector reference, the configuration and the
\* target classes as they were; the state and the reference change only in
\* steps of lifespan.
C17_HandlersFrame ==
    [][/\ (\E r \in Reqs : req'[r] # req[r]) =>
            /\ state' = state /\ model' = model
            /\ cfgFile' = cfgFile /\ cfgDoc' = cfgDoc
            /\ detector'.model_config = detector.model_config
            /\ detector'.inference_config = detector.inference_config
            /\ detector'.classes_to_detect = detector.classes_to_detect
       /\ (state' # state \/ model' # model) => lifespan' # lifespan]_vars

C17_Witness ==
    /\ resp.kind = "detect" /\ resp.status = 500 /\ resp.failPhase = "predict"
    /\ state = "ready" /\ model = "PersonDetector"
    /\ detector.classes_to_detect = get_classes_to_detect(cfgDoc)

\* C18: whenever the state is Ready, and after it, the global detector
\* reference is set, so a handler that finds the state Ready passes the
\* 'Model not loaded' test too.
C18_ReadyHasDetector ==
    /\ state \in {"ready", "shutting_down"} => model = "PersonDetector"
    /\ state = "ready" => Gate(state, model) = 0
    /\ resp.gateState = "ready" =>
         (resp.gateModel = "PersonDetector" /\ resp.status # 503)
    /\ \A r \in Reqs : req[r].gateState = "ready" => req[r].gateModel = "PersonDetector"

C18_Witness ==
    /\ state = "ready" /\ model = "PersonDetector"
    /\ resp.kind = "readyz" /\ resp.status = 200 /\ resp.gateModel = "PersonDetector"
\* C19: the model handle and the invocation parameters of the detector are
\* both absent or both set; a load that fails leaves both absent, the next
\* use of the model starts a load again, and once set they never change.
C19_FailedLoadNotMemoized ==
    [][/\ detector._model = detector._model_params.set
       /\ detector'._model = detector'._model_params.set
       /\ detector._model => detector' = detector
       /\ (loadFailed' /\ loading' < loading /\ loads' = loads) =>
            (detector' = detector /\ ~detector'._model)
       /\ \A r \in Reqs :
            (req[r].pc = "model" /\ req'[r] # req[r] /\ ~detector._model
             /\ _get_model_path(detector.model_config).ok)
            => (req'[r].pc = "loading" /\ loading' = loading + 1)]_vars

C19_Witness ==
    /\ loadFailed /\ loads = 1
    /\ detector._model /\ detector._model_params.set
\* C20: run as the entry point with a configuration that loads, the module
\* does not fail before the server is started, and the server is started with
\* the host, port and reload of the resolved server configuration.
C20_EntryPointServes ==
    mainPc # "start" =>
      /\ mainPc = "serving"
      /\ served.host = get_server_config(cfgIn).host
      /\ served.port = get_server_config(cfgIn).port
      /\ served.reload = get_server_config(cfgIn).reload

====
